---- MODULE Spec2Model ----
(***************************************************************************)
(* Model of stream::successors (src/src/stream/successors.rs): the         *)
(* Successors struct, the successors() factory and Stream::poll_next.      *)
(* The user-supplied step closure and the futures it returns are the       *)
(* environment: every poll_next draws what they do in that pull (the       *)
(* closure returns a future or panics; the future's poll returns Pending,  *)
(* Ready(None), Ready(Some(v)) or panics).                                 *)
(***************************************************************************)
EXTENDS Integers, Sequences, FiniteSets, TLC

\* ---- bounds ----
MaxVal == 1      \* element type T is 0..MaxVal
MaxPulls == 5    \* number of poll_next calls explored
MaxDelay == 2    \* progress runs: Pending answers one step future may give

T == 0 .. MaxVal

\* ---- Option<_> and Poll<_> ----
None == << >>
Some(v) == << v >>
IsNone(o) == o = None
IsSome(o) == o # None
Unwrap(o) == o[1]
OptionT == {None} \cup {Some(v) : v \in T}

Ready(o) == [kind |-> "Ready", val |-> o]
Pending == [kind |-> "Pending", val |-> None]
Panicked == [kind |-> "Panic", val |-> None]

\* what the step future's poll does in one pull (environment)
PollOutcomes == {Pending, Panicked} \cup {Ready(o) : o \in OptionT}

VARIABLES
    first,        \* the seed handed to successors()
    slot,         \* Successors.slot : Option<T>
    future,       \* Successors.future : Option<Fut>; Fut is [id, input]
    rets,         \* history: what each poll_next returned (or that it unwound)
    calls,        \* history: the argument of every invocation of the closure
    created,      \* history: number of futures the closure has returned
    dropped,      \* history: ids of the futures destroyed so far
    completions,  \* history: every Ready(_) of a step future: id, input, result, pull
    polls,        \* history: id of the future polled in each pull (0: none polled)
    stale,        \* history: a future was polled after it had returned Ready
    stepFaults,   \* history: number of closure invocations that panicked
    pollFaults    \* history: number of step-future polls that panicked

vars == << first, slot, future, rets, calls, created, dropped, completions,
           polls, stale, stepFaults, pollFaults >>

\* ---- factory: successors(first, succ) ----
successorsPrimed(f) == [future |-> IF f = << >> THEN << >>
                                   ELSE << [id |-> 0, input |-> f[1]] >>,
                        slot |-> f]
successors(f) == [future |-> None, slot |-> f]

Init ==
    /\ first \in OptionT
    /\ slot = successors(first).slot
    /\ future = successors(first).future
    /\ rets = << >>
    /\ calls = << >>
    /\ created = 0
    /\ dropped = {}
    /\ completions = << >>
    /\ polls = << >>
    /\ stale = FALSE
    /\ stepFaults = 0
    /\ pollFaults = 0

\* ---- derived history ----
pulls == Len(rets)
ret == rets[Len(rets)]
IsDelivery(r) == r.kind = "Ready" /\ IsSome(r.val)
DeliveredOf(rs) == LET d == SelectSeq(rs, IsDelivery)
                   IN [k \in 1 .. Len(d) |-> Unwrap(d[k].val)]
delivered == DeliveredOf(rets)
CompletedIds == {completions[k].id : k \in 1 .. Len(completions)}
FutureIds(o) == IF IsNone(o) THEN {} ELSE {Unwrap(o).id}

\* ---- poll_next ----
\* line 93: if this.slot.is_none()
TerminatedInverted == IsSome(slot)
Terminated == IsNone(slot)

\* line 97: if this.future.is_none()
NeedsStepAlways == TRUE
NeedsStep == IsNone(future)

\* line 105: this.future.set(None)
FutureAfterReadyKept(fut) == fut
FutureAfterReady(fut) == None

\* line 106: mem::swap(this.slot, &mut next) gives << *this.slot, next >>
SwapForgotten(s, next) == << s, next >>
Swap(s, next) == << next, s >>

\* line 98: this.slot.unwrap() with T: Copy moves a copy out; slot keeps its value
SlotAfterTake(s) == None
SlotAfterUnwrap(s) == s

\* Pin::set(value): the old content of the field is dropped in place
SetDrops(old, new) == FutureIds(old) \ FutureIds(new)

poll_next(stepPanics, outcome) ==
    /\ pulls < MaxPulls
    /\ IF Terminated
       THEN \* lines 93-95: return Poll::Ready(None)
            /\ rets' = Append(rets, Ready(None))
            /\ polls' = Append(polls, 0)
            /\ UNCHANGED << slot, future, calls, created, dropped, completions,
                            stale, stepFaults, pollFaults >>
       ELSE IF NeedsStep /\ IsNone(slot)
       THEN \* line 98: Option::unwrap of None panics
            /\ rets' = Append(rets, Panicked)
            /\ polls' = Append(polls, 0)
            /\ UNCHANGED << slot, future, calls, created, dropped, completions,
                            stale, stepFaults, pollFaults >>
       ELSE IF NeedsStep /\ stepPanics
       THEN \* line 99: the closure unwinds before line 100 stores anything
            /\ rets' = Append(rets, Panicked)
            /\ polls' = Append(polls, 0)
            /\ calls' = Append(calls, Unwrap(slot))
            /\ stepFaults' = stepFaults + 1
            /\ slot' = SlotAfterUnwrap(slot)
            /\ UNCHANGED << future, created, dropped, completions,
                            stale, pollFaults >>
       ELSE LET started == NeedsStep
                \* lines 98-100: x = slot.unwrap(); fut = successor(x); future.set(Some(fut))
                fut == IF started
                       THEN Some([id |-> created + 1, input |-> Unwrap(slot)])
                       ELSE future
                calls1 == IF started THEN Append(calls, Unwrap(slot)) ELSE calls
                created1 == IF started THEN created + 1 ELSE created
                dropped1 == IF started THEN dropped \cup SetDrops(future, fut)
                            ELSE dropped
                slot1 == IF started THEN SlotAfterUnwrap(slot) ELSE slot
            IN  IF IsNone(fut)
                THEN \* line 103: as_pin_mut().unwrap() of None panics
                     /\ rets' = Append(rets, Panicked)
                     /\ polls' = Append(polls, 0)
                     /\ UNCHANGED << slot, future, calls, created, dropped,
                                     completions, stale, stepFaults, pollFaults >>
                ELSE \* line 103: poll the step future
                     /\ calls' = calls1
                     /\ created' = created1
                     /\ polls' = Append(polls, Unwrap(fut).id)
                     /\ stale' = (stale \/ Unwrap(fut).id \in CompletedIds)
                     /\ UNCHANGED stepFaults
                     /\ CASE outcome.kind = "Panic" ->
                               \* the poll unwinds through poll_next
                               /\ rets' = Append(rets, Panicked)
                               /\ future' = fut
                               /\ dropped' = dropped1
                               /\ pollFaults' = pollFaults + 1
                               /\ slot' = slot1
                               /\ UNCHANGED completions
                          [] outcome.kind = "Pending" ->
                               \* ready!: return Poll::Pending
                               /\ rets' = Append(rets, Pending)
                               /\ future' = fut
                               /\ dropped' = dropped1
                               /\ slot' = slot1
                               /\ UNCHANGED << completions, pollFaults >>
                          [] outcome.kind = "Ready" ->
                               \* lines 105-107
                               LET next == outcome.val
                                   cleared == FutureAfterReady(fut)
                                   sw == Swap(slot1, next)
                               IN  /\ completions' = Append(completions,
                                          [id |-> Unwrap(fut).id,
                                           input |-> Unwrap(fut).input,
                                           result |-> next,
                                           pull |-> pulls + 1])
                                   /\ future' = cleared
                                   /\ dropped' = dropped1 \cup SetDrops(fut, cleared)
                                   /\ slot' = sw[1]
                                   /\ rets' = Append(rets, Ready(sw[2]))
                                   /\ UNCHANGED pollFaults
    /\ UNCHANGED first

\* ---- one action per thing the environment does during a pull ----
\* the sequence has no value left
PullTerminated ==
    /\ IsNone(slot)
    /\ poll_next(FALSE, Pending)

\* the closure panics when invoked
PullStepPanics ==
    /\ IsSome(slot) /\ IsNone(future)
    /\ poll_next(TRUE, Pending)

\* the step future (new or in flight) is not ready yet
PullFuturePending ==
    /\ IsSome(slot)
    /\ poll_next(FALSE, Pending)

\* the step future (new or in flight) completes
PullFutureReady ==
    /\ IsSome(slot)
    /\ \E o \in OptionT : poll_next(FALSE, Ready(o))

\* the step future (new or in flight) panics when polled
PullFuturePanics ==
    /\ IsSome(slot)
    /\ poll_next(FALSE, Panicked)

Next ==
    \/ PullTerminated
    \/ PullStepPanics
    \/ PullFuturePending
    \/ PullFutureReady
    \/ PullFuturePanics

Spec == Init /\ [][Next]_vars

TypeOK ==
    /\ first \in OptionT
    /\ slot \in OptionT
    /\ IsSome(future) => Unwrap(future).id \in 1 .. created /\ Unwrap(future).input \in T
    /\ Len(polls) = Len(rets)
    /\ created + stepFaults = Len(calls)

\* ---- properties ----

\* C1: the values returned as Ready(Some(_)) are, in order, v0 = the seed,
\* v1, v2, ...: the k-th delivery is made by the pull in which the step
\* future started with input vk completes, and for k >= 1 vk is the Some
\* payload of the completion of the step future started with v(k-1); one
\* delivery per completion, so nothing is reordered, duplicated or skipped.
C1_StepInputChain ==
    IsSome(first) =>
        /\ Len(delivered) = Len(completions)
        /\ \A k \in 1 .. Len(delivered) :
              /\ k = 1 => delivered[k] = Unwrap(first)
              /\ k > 1 => completions[k - 1].result = Some(delivered[k])
              /\ completions[k].input = delivered[k]
              /\ rets[completions[k].pull] = Ready(Some(delivered[k]))
              /\ k > 1 => completions[k - 1].pull < completions[k].pull

C1_Witness ==
    /\ Len(delivered) = 3
    /\ delivered[1] # delivered[2]
    /\ \E j \in 1 .. Len(rets) : rets[j] = Pending

\* C2: with an empty seed every poll_next returns Ready(None) and the
\* closure is never invoked.
C2_EmptySeed ==
    IsNone(first) =>
        /\ calls = << >>
        /\ created = 0
        /\ \A j \in 1 .. Len(rets) : rets[j] = Ready(None)

C2_Witness ==
    /\ IsNone(first)
    /\ pulls >= 3

\* C3: with seed Some(v) the first Ready(Some(_)) is Ready(Some(v)) and no
\* Ready(None) is returned before it.
C3_SeedFirst ==
    IsSome(first) =>
        /\ Len(delivered) >= 1 => delivered[1] = Unwrap(first)
        /\ \A j \in 1 .. Len(rets) :
              rets[j] = Ready(None) => \E i \in 1 .. (j - 1) : IsDelivery(rets[i])

C3_Witness ==
    /\ first = Some(1)
    /\ pulls >= 3
    /\ rets[1] = Pending
    /\ rets[2] = Panicked
    /\ rets[3] = Ready(Some(1))

\* C4: when the step future started with input v(n-1) completes with None,
\* that pull still returns Ready(Some(v(n-1))), it is the last completion,
\* exactly n values v0 .. v(n-1) have been delivered, and every later pull
\* returns Ready(None); a seed whose first step result is None yields the
\* seed alone.
C4_TerminationOnStepNone ==
    \A k \in 1 .. Len(completions) :
        IsNone(completions[k].result) =>
            /\ rets[completions[k].pull] = Ready(Some(completions[k].input))
            /\ k = Len(completions)
            /\ Len(delivered) = k
            /\ delivered[k] = completions[k].input
            /\ k = 1 => delivered = << Unwrap(first) >>
            /\ \A j \in (completions[k].pull + 1) .. Len(rets) : rets[j] = Ready(None)

C4_Witness ==
    /\ Len(completions) = 2
    /\ IsNone(completions[2].result)
    /\ pulls > completions[2].pull

C4_WitnessSeedOnly ==
    /\ Len(completions) = 1
    /\ IsNone(completions[1].result)
    /\ pulls > completions[1].pull

\* C5: once a poll_next has returned Ready(None), every later poll_next
\* returns Ready(None), invokes the closure zero times and leaves slot and
\* future absent.
C5_TerminalAbsorbing ==
    [][(pulls >= 1 /\ ret = Ready(None)) =>
          /\ rets'[Len(rets')] = Ready(None)
          /\ calls' = calls
          /\ created' = created
          /\ IsNone(slot')
          /\ IsNone(future')]_vars

C5_Witness ==
    /\ IsSome(first)
    /\ pulls >= 3
    /\ rets[pulls] = Ready(None)
    /\ rets[pulls - 1] = Ready(None)

\* C6: after a pull that returned Pending the next pull polls the same
\* future and does not invoke the closure; the closure is invoked only when
\* no future is stored and every future it returned earlier has completed.
C6_PendingPreservation ==
    [][/\ (pulls >= 1 /\ ret = Pending) =>
              /\ IsSome(future)
              /\ polls'[Len(polls')] = polls[Len(polls)]
              /\ polls'[Len(polls')] = Unwrap(future).id
              /\ calls' = calls
       /\ calls' # calls =>
              /\ IsNone(future)
              /\ (1 .. created) \subseteq CompletedIds]_vars

C6_Witness ==
    /\ pulls >= 4
    /\ rets[1] = Pending
    /\ rets[2] = Pending
    /\ polls[1] = polls[2]
    /\ IsDelivery(rets[3])
    /\ Len(calls) = 2

\* C7: at most one step future exists at a time, a future that returned
\* Ready is destroyed before that pull returns, and no future is polled
\* after it has returned Ready.
C7_AtMostOneInFlight ==
    /\ Cardinality((1 .. created) \ dropped) <= 1
    /\ (1 .. created) \ dropped = FutureIds(future)
    /\ CompletedIds \subseteq dropped
    /\ ~stale

C7_Witness ==
    /\ Len(completions) >= 2
    /\ \E j \in 1 .. Len(rets) : rets[j] = Pending
    /\ IsSome(future)

\* number of invocations of the closure that returned a future
invoked == Len(calls) - stepFaults

\* C8 as stated: n invocations after n deliveries while the sequence is live
\* (read: and no step is in flight), n+1 once termination has been observed
\* after a non-empty seed.
C8_Original ==
    /\ (IsSome(slot) /\ IsNone(future)) => invoked = Len(delivered)
    /\ (pulls >= 1 /\ ret = Ready(None) /\ IsSome(first)) =>
           invoked = Len(delivered) + 1

\* C8 amended: after n deliveries the closure has returned n futures when no
\* step future is in flight, live or terminated alike, and n+1 while one
\* is in flight.
C8_NoExtraCalls ==
    /\ IsNone(future) => invoked = Len(delivered)
    /\ IsSome(future) => invoked = Len(delivered) + 1
    /\ (pulls >= 1 /\ ret = Ready(None)) => invoked = Len(delivered)

C8_Witness ==
    /\ IsSome(first)
    /\ pulls >= 1
    /\ ret = Ready(None)
    /\ Len(delivered) = 2
    /\ \E j \in 1 .. Len(rets) : rets[j] = Pending

FaultFree == stepFaults = 0 /\ pollFaults = 0

\* C9 as stated: fault-free, m >= 1 deliveries and no step in flight give
\* m-1 invocations.
C9_Original ==
    (FaultFree /\ Len(delivered) >= 1 /\ IsNone(future)) =>
        Len(calls) = Len(delivered) - 1

\* C9 amended: one invocation per delivered element, the seed included:
\* fault-free, m >= 1 deliveries and no step in flight give m invocations.
C9_OneCallPerElement ==
    (FaultFree /\ Len(delivered) >= 1 /\ IsNone(future)) =>
        /\ Len(calls) = Len(delivered)
        /\ calls = delivered

C9_Witness ==
    /\ FaultFree
    /\ Len(delivered) = 3
    /\ IsNone(future)
    /\ IsSome(slot)

\* C10 as stated: the first pull of a seeded sequence returns
\* Ready(Some(v)) without invoking the closure.
C10_Original ==
    (IsSome(first) /\ pulls >= 1) =>
        /\ rets[1] = Ready(first)
        /\ (pulls = 1 => calls = << >>)

\* C10 amended: the first pull of a sequence seeded with Some(v) invokes the
\* closure once, with v, and polls the future it returns; it returns
\* Ready(Some(v)) exactly when that poll is Ready and Pending when that poll
\* is Pending, so a Pending result is possible from the first pull onward;
\* it never returns Ready(None) or another value.
C10_FirstPull ==
    (IsSome(first) /\ pulls >= 1) =>
        /\ calls[1] = Unwrap(first)
        /\ (pulls = 1 => Len(calls) = 1)
        /\ rets[1] \in {Ready(first), Pending, Panicked}
        /\ rets[1] = Ready(first) <=>
               (Len(completions) >= 1 /\ completions[1].pull = 1)
        /\ rets[1] # Panicked => polls[1] = 1
        /\ (pulls = 1 /\ rets[1] = Pending) =>
               future = Some([id |-> 1, input |-> Unwrap(first)])

C10_Witness ==
    /\ IsSome(first)
    /\ pulls = 1
    /\ rets[1] = Pending

C10_WitnessReady ==
    /\ IsSome(first)
    /\ pulls = 1
    /\ rets[1] = Ready(first)

\* C11: when the closure panics inside a pull, the pull unwinds to its
\* caller with future absent and slot unchanged, and the next pull invokes
\* the closure again with the same slot value.
C11_StepConstructionFault ==
    [][/\ stepFaults' > stepFaults =>
              /\ rets'[Len(rets')] = Panicked
              /\ IsNone(future')
              /\ IsSome(slot)
              /\ slot' = slot
              /\ calls' = Append(calls, Unwrap(slot))
              /\ created' = created
       /\ (pulls >= 1 /\ ret = Panicked /\ polls[Len(polls)] = 0) =>
              /\ Len(calls') = Len(calls) + 1
              /\ calls'[Len(calls')] = calls[Len(calls)]
              /\ calls'[Len(calls')] = Unwrap(slot)]_vars

C11_Witness ==
    /\ IsSome(first)
    /\ pulls >= 2
    /\ rets[1] = Panicked
    /\ polls[1] = 0
    /\ stepFaults = 1
    /\ rets[2] = Ready(first)
    /\ calls = << Unwrap(first), Unwrap(first) >>

\* C12: when the poll of the step future panics inside a pull, the pull
\* unwinds to its caller with that future still stored and slot unchanged,
\* and the next pull polls the same future without invoking the closure.
C12_StepFutureFault ==
    [][/\ pollFaults' > pollFaults =>
              /\ rets'[Len(rets')] = Panicked
              /\ IsSome(future')
              /\ polls'[Len(polls')] = Unwrap(future').id
              /\ IsSome(future) => future' = future
              /\ slot' = slot
       /\ (pulls >= 1 /\ ret = Panicked /\ polls[Len(polls)] # 0) =>
              /\ IsSome(future)
              /\ polls'[Len(polls')] = polls[Len(polls)]
              /\ calls' = calls
              /\ created' = created]_vars

C12_Witness ==
    /\ pulls >= 3
    /\ rets[1] = Pending
    /\ rets[2] = Panicked
    /\ polls[2] = 1
    /\ IsDelivery(rets[3])
    /\ polls[3] = 1
    /\ Len(calls) = 1

\* C13: the factory builds the sequence with slot = first and future absent
\* and does not invoke the closure; the closure is invoked at most once per
\* poll_next and never outside one.
C13_Factory ==
    /\ pulls = 0 =>
           /\ slot = first
           /\ IsNone(future)
           /\ calls = << >>
           /\ created = 0
    /\ Len(calls) <= pulls

C13_Witness ==
    /\ pulls = 0
    /\ IsSome(first)
    /\ slot = first
    /\ IsNone(future)

\* C14: between pulls, whatever the last pull returned or raised, future
\* present implies slot present (slot absent implies future absent).
C14_PendingImpliesSlot ==
    /\ IsSome(future) => IsSome(slot)
    /\ IsNone(slot) => IsNone(future)

C14_Witness ==
    /\ IsSome(first)
    /\ IsNone(slot)
    /\ IsNone(future)
    /\ \E j \in 1 .. Len(rets) : rets[j] = Pending
    /\ \E j \in 1 .. Len(rets) : rets[j] = Panicked /\ polls[j] # 0

\* C15: between pulls a stored future is the one the closure returned for
\* the value now in slot (its latest invocation) and has not returned
\* Ready; while a future stays in flight, slot and that future do not change.
C15_PendingIsStepOfSlot ==
    /\ [](IsSome(future) =>
              /\ IsSome(slot)
              /\ Unwrap(future).input = Unwrap(slot)
              /\ Unwrap(future).id = created
              /\ calls[Len(calls)] = Unwrap(slot)
              /\ Unwrap(future).id \notin CompletedIds)
    /\ [][(IsSome(future) /\ IsSome(future')) =>
              /\ slot' = slot
              /\ future' = future]_vars

C15_Witness ==
    /\ pulls >= 4
    /\ Len(completions) >= 1
    /\ IsSome(future)
    /\ rets[pulls] = Panicked
    /\ rets[pulls - 1] = Pending
    /\ polls[pulls] = polls[pulls - 1]

\* C16: a pull that returns Pending with a future already in flight leaves
\* slot and future as they were; a pull that returns Pending after starting
\* a step leaves slot unchanged and turns future from absent to present.
C16_PendingFrame ==
    [][(rets' # rets /\ rets'[Len(rets')] = Pending) =>
          /\ slot' = slot
          /\ IsSome(future) => (future' = future /\ calls' = calls)
          /\ IsNone(future) =>
                 /\ IsSome(future')
                 /\ Unwrap(future').input = Unwrap(slot)
                 /\ created' = created + 1]_vars

C16_Witness ==
    /\ pulls = 4
    /\ IsDelivery(rets[1])
    /\ rets[2] = Pending
    /\ rets[3] = Pending
    /\ rets[4] = Pending

\* C17: a pull returns Pending only with slot present and after a poll of
\* the step future in that pull that neither completed nor panicked (never
\* from the terminal state); a pull in which the step future returns Ready
\* returns Ready(Some(_)).
C17_PendingOnlyFromStepPoll ==
    [][rets' # rets =>
          /\ rets'[Len(rets')] = Pending =>
                 /\ IsSome(slot)
                 /\ polls'[Len(polls')] # 0
                 /\ IsSome(future')
                 /\ polls'[Len(polls')] = Unwrap(future').id
                 /\ completions' = completions
                 /\ pollFaults' = pollFaults
          /\ IsNone(slot) => rets'[Len(rets')] = Ready(None)
          /\ completions' # completions => IsDelivery(rets'[Len(rets')])]_vars

C17_Witness ==
    /\ Len(completions) = 2
    /\ IsNone(completions[2].result)
    /\ rets[1] = Pending
    /\ IsDelivery(rets[pulls])

\* C18: every Ready(Some(v)) is returned by the pull in which a step future
\* started with input v returns Ready, after an invocation of the closure
\* on v; a pull of a live sequence in which the step future does not
\* complete delivers nothing and returns Pending (or unwinds on a fault).
C18_DeliveredOnlyOnCompletion ==
    /\ [](\A j \in 1 .. Len(rets) :
              IsDelivery(rets[j]) =>
                  /\ \E k \in 1 .. Len(completions) :
                         /\ completions[k].pull = j
                         /\ completions[k].input = Unwrap(rets[j].val)
                         /\ completions[k].id \in 1 .. created
                  /\ \E c \in 1 .. Len(calls) : calls[c] = Unwrap(rets[j].val))
    /\ [][(rets' # rets /\ IsSome(slot) /\ completions' = completions) =>
              /\ DeliveredOf(rets') = delivered
              /\ rets'[Len(rets')] \in {Pending, Panicked}
              /\ (stepFaults' = stepFaults /\ pollFaults' = pollFaults) =>
                     rets'[Len(rets')] = Pending]_vars

C18_Witness ==
    /\ IsSome(first)
    /\ pulls >= 4
    /\ \A j \in 1 .. Len(rets) : rets[j] = Pending
    /\ \A j \in 1 .. Len(polls) : polls[j] = 1

\* C19: in a fault-free run, between pulls the number of invocations of the
\* closure is the number of delivered elements, plus one exactly when a
\* future is stored; in the terminal state after a non-empty seed the two
\* are equal.
C19_CallCount ==
    FaultFree =>
        /\ Len(calls) = Len(delivered) + Cardinality(FutureIds(future))
        /\ (IsNone(slot) /\ IsSome(first)) => Len(calls) = Len(delivered)

C19_Witness ==
    /\ FaultFree
    /\ IsSome(first)
    /\ IsNone(slot)
    /\ Len(delivered) >= 2
    /\ \E j \in 1 .. Len(rets) : rets[j] = Pending

\* ---- progress: an unbounded run of pulls over a bounded window of history ----

\* number of polls of future id recorded in the window that returned Pending
PendingPolls(rs, ps, id) ==
    Cardinality({j \in 1 .. Len(rs) : ps[j] = id /\ rs[j] = Pending})

\* the environment of the progress runs: closure and futures do not panic,
\* and no future answers Pending more than MaxDelay times
FiniteDelay == PendingPolls(rets', polls', polls'[Len(polls')]) <= MaxDelay

LivePullTerminated == PullTerminated

LivePullPending == PullFuturePending /\ FiniteDelay

LivePullReady == PullFutureReady

\* The history window is full: the driver goes on pulling and the record is
\* cut down to the last pull. slot and the stored future are not touched;
\* the stored future is renumbered 1 as the only future of the new window.
ForgetHistory ==
    /\ pulls = MaxPulls
    /\ rets' = << ret >>
    /\ polls' = << IF IsSome(future) /\ polls[Len(polls)] = Unwrap(future).id
                   THEN 1 ELSE 0 >>
    /\ future' = IF IsSome(future)
                 THEN Some([id |-> 1, input |-> Unwrap(future).input])
                 ELSE None
    /\ created' = Cardinality(FutureIds(future))
    /\ calls' = IF IsSome(future) THEN << Unwrap(future).input >> ELSE << >>
    /\ completions' = << >>
    /\ dropped' = {}
    /\ UNCHANGED << first, slot, stale, stepFaults, pollFaults >>

LiveNext ==
    \/ LivePullTerminated
    \/ LivePullPending
    \/ LivePullReady
    \/ ForgetHistory

\* the driver keeps calling poll_next
LiveSpec == Init /\ [][LiveNext]_vars /\ WF_vars(LiveNext)

\* C20: when every step future returns Ready after finitely many polls and
\* the driver keeps pulling, pulls that return Ready (Some or None) recur
\* forever, every Pending is followed by a Ready, and once a step result is
\* None the sequence reports termination.
C20_Progress ==
    /\ []<>(pulls >= 1 /\ ret.kind = "Ready")
    /\ (pulls >= 1 /\ ret = Pending) ~> (pulls >= 1 /\ ret.kind = "Ready")
    /\ (Len(completions) >= 1 /\ IsNone(completions[Len(completions)].result))
           ~> (IsNone(slot) /\ pulls >= 1 /\ ret = Ready(None))

C20_Witness ==
    /\ pulls >= 4
    /\ rets[1] = Pending
    /\ rets[2] = Pending
    /\ IsDelivery(rets[3])
    /\ rets[4] = Pending
    /\ polls[4] = 2
====
